---- MODULE Spec2Model ----
(***************************************************************************)
(* Model of crates/rspack_plugin_css/src/utils.rs: the CSS-modules         *)
(* identifier generator (new_name_for), the export serializer              *)
(* (css_modules_exports_to_string) and the url normalizer (normalize_url). *)
(*                                                                         *)
(* Text handled by normalize_url is a sequence of Unicode code points      *)
(* (naturals); byte lengths are computed from the UTF-8 encoding, because  *)
(* the code measures the matched escape in bytes.                          *)
(***************************************************************************)
EXTENDS Integers, Sequences, FiniteSets, TLC

VARIABLES
  raw,        \* normalize_url: the argument s
  urlPc,      \* normalize_url: "idle" | "start" | "done"
  urlOut,     \* normalize_url: the outcome, [kind |-> "ok", val |-> text] or [kind |-> "panic"]
  filename,   \* ModulesTransformConfig.filename
  config,     \* ModulesTransformConfig: local_name_ident, hash_digest_length, hash_salt
  local,      \* new_name_for: the argument local
  namePc,     \* new_name_for: "idle" | "start" | "done"
  ident,      \* new_name_for: the outcome, [kind |-> "ok", val |-> text] or [kind |-> "panic"]
  exports,    \* per module, the exports table: a sequence of [key, elements] in insertion order
  locals_convention,  \* the enabled conventions, a subset of {"as_is", "camel_case", "dashes"}
  dependencies,       \* module graph: per module, its graph entry Mgm(dependency ids) or NoMgm
  code,       \* per module, Pending or the outcome of css_modules_exports_to_string
  alive       \* whether the process is still running

urlVars == <<raw, urlPc, urlOut>>
nameVars == <<filename, config, local, namePc, ident>>
serVars == <<exports, locals_convention, dependencies, code, alive>>
vars == <<raw, urlPc, urlOut, filename, config, local, namePc, ident,
          exports, locals_convention, dependencies, code, alive>>

(***************************************************************************)
(* Bounds of the model.                                                    *)
(***************************************************************************)
MaxPieces == 4

(***************************************************************************)
(* Characters the code names.                                              *)
(***************************************************************************)
BACKSLASH == 92
PERCENT == 37
MAX_HEX_DIGITS == 6
RADIX == 16
CHAR_MAX == 1114111
SURROGATE_LO == 55296
SURROGATE_HI == 57343

NoText == <<>>
Ok(t) == [kind |-> "ok", val |-> t]
Panic == [kind |-> "panic"]

Drop(s, n) == SubSeq(s, n + 1, Len(s))
Take(s, n) == SubSeq(s, 1, n)

(***************************************************************************)
(* Character classes of the four regular expressions.                      *)
(***************************************************************************)
\* [\n\r\f]
IsLineBreak(c) == c \in {10, 13, 12}

\* [ \t\n\r\f]
IsCssSpace(c) == c \in {32, 9, 10, 13, 12}

\* [0-9a-fA-F]
IsHexDigit(c) == (c >= 48 /\ c <= 57) \/ (c >= 65 /\ c <= 70) \/ (c >= 97 /\ c <= 102)

HexDigitValue(c) ==
  IF c >= 48 /\ c <= 57 THEN c - 48
  ELSE IF c >= 65 /\ c <= 70 THEN c - 55
  ELSE c - 87

\* char::is_whitespace restricted to the code points below U+3000 the model can build
IsUnicodeSpace(c) == c \in {9, 10, 11, 12, 13, 32, 133, 160}

(***************************************************************************)
(* UTF-8: str::len counts bytes, percent-decoding works on bytes.          *)
(***************************************************************************)
Utf8Len(c) == IF c < 128 THEN 1 ELSE IF c < 2048 THEN 2 ELSE IF c < 65536 THEN 3 ELSE 4

RECURSIVE ByteLen(_)
ByteLen(s) == IF s = <<>> THEN 0 ELSE Utf8Len(Head(s)) + ByteLen(Tail(s))

Utf8EncodeChar(c) ==
  IF c < 128 THEN <<c>>
  ELSE IF c < 2048 THEN <<192 + (c \div 64), 128 + (c % 64)>>
  ELSE IF c < 65536 THEN <<224 + (c \div 4096), 128 + ((c \div 64) % 64), 128 + (c % 64)>>
  ELSE <<240 + (c \div 262144), 128 + ((c \div 4096) % 64),
         128 + ((c \div 64) % 64), 128 + (c % 64)>>

RECURSIVE Utf8Encode(_)
Utf8Encode(s) == IF s = <<>> THEN <<>> ELSE Utf8EncodeChar(Head(s)) \o Utf8Encode(Tail(s))

IsCont(b) == b >= 128 /\ b <= 191

IsScalar(v) == v >= 0 /\ v <= CHAR_MAX /\ ~(v >= SURROGATE_LO /\ v <= SURROGATE_HI)

\* String::from_utf8: the decoded text, or "invalid" (overlong forms, surrogates,
\* stray continuation bytes and truncated sequences are rejected).
RECURSIVE Utf8Decode(_)
Utf8Decode(b) ==
  IF b = <<>> THEN Ok(<<>>)
  ELSE LET b1 == b[1]
           n  == IF b1 < 128 THEN 1
                 ELSE IF b1 >= 194 /\ b1 <= 223 THEN 2
                 ELSE IF b1 >= 224 /\ b1 <= 239 THEN 3
                 ELSE IF b1 >= 240 /\ b1 <= 244 THEN 4
                 ELSE 0
       IN IF n = 0 \/ Len(b) < n \/ \E i \in 2..n : ~IsCont(b[i])
          THEN [kind |-> "invalid"]
          ELSE LET v == IF n = 1 THEN b1
                        ELSE IF n = 2 THEN (b1 - 192) * 64 + (b[2] - 128)
                        ELSE IF n = 3 THEN (b1 - 224) * 4096 + (b[2] - 128) * 64 + (b[3] - 128)
                        ELSE (b1 - 240) * 262144 + (b[2] - 128) * 4096
                             + (b[3] - 128) * 64 + (b[4] - 128)
                   rest == Utf8Decode(Drop(b, n))
               IN IF ~IsScalar(v) \/ Utf8Len(v) # n \/ rest.kind # "ok"
                  THEN [kind |-> "invalid"]
                  ELSE Ok(<<v>> \o rest.val)

(***************************************************************************)
(* Step 1: STRING_MULTILINE.replace_all(s, "")                             *)
(***************************************************************************)
RECURSIVE StripLineContinuations(_)
StripLineContinuations(s) ==
  IF s = <<>> THEN <<>>
  ELSE IF s[1] = BACKSLASH /\ Len(s) >= 2 /\ IsLineBreak(s[2])
       THEN StripLineContinuations(Drop(s, 2))
       ELSE <<s[1]>> \o StripLineContinuations(Tail(s))

(***************************************************************************)
(* Step 2: TRIM_WHITE_SPACES.replace_all(result, "")                       *)
(***************************************************************************)
RECURSIVE TrimStart(_)
TrimStart(s) == IF s # <<>> /\ IsCssSpace(Head(s)) THEN TrimStart(Tail(s)) ELSE s

RECURSIVE TrimEnd(_)
TrimEnd(s) == IF s # <<>> /\ IsCssSpace(s[Len(s)]) THEN TrimEnd(Take(s, Len(s) - 1)) ELSE s

TrimWhiteSpaces(s) == TrimEnd(TrimStart(s))

(***************************************************************************)
(* Step 3: UNESCAPE.replace_all(result, |caps| ...)                        *)
(***************************************************************************)
\* number of leading hex digits of s, at most MAX_HEX_DIGITS ({1,6} is greedy)
RECURSIVE HexRun(_, _)
HexRun(s, n) ==
  IF n < MAX_HEX_DIGITS /\ Len(s) > n /\ IsHexDigit(s[n + 1]) THEN HexRun(s, n + 1) ELSE n

\* Length in characters of the UNESCAPE match starting at s[1], 0 when there is none:
\* \\([0-9a-fA-F]{1,6}[ \t\n\r\f]?|[\s\S])
UnescapeMatchLen(s) ==
  IF Len(s) < 2 \/ s[1] # BACKSLASH THEN 0
  ELSE LET h == HexRun(Tail(s), 0)
       IN IF h = 0 THEN 2
          ELSE IF Len(s) > 1 + h /\ IsCssSpace(s[2 + h]) THEN 2 + h ELSE 1 + h

\* str::trim
RECURSIVE StrTrimStart(_)
StrTrimStart(s) == IF s # <<>> /\ IsUnicodeSpace(Head(s)) THEN StrTrimStart(Tail(s)) ELSE s

RECURSIVE StrTrimEnd(_)
StrTrimEnd(s) ==
  IF s # <<>> /\ IsUnicodeSpace(s[Len(s)]) THEN StrTrimEnd(Take(s, Len(s) - 1)) ELSE s

StrTrim(s) == StrTrimEnd(StrTrimStart(s))

\* u32::from_str_radix(t, 16): Ok(value) or an error. A leading '+' is accepted.
RECURSIVE HexFold(_, _)
HexFold(t, acc) == IF t = <<>> THEN acc ELSE HexFold(Tail(t), acc * RADIX + HexDigitValue(Head(t)))

FromStrRadix(t) ==
  LET digits == IF t # <<>> /\ t[1] = 43 THEN Tail(t) ELSE t
  IN IF digits = <<>> \/ \E i \in 1..Len(digits) : ~IsHexDigit(digits[i])
        \/ Len(digits) > 8
     THEN [kind |-> "err"]
     ELSE [kind |-> "ok", val |-> HexFold(digits, 0)]

\* char::from_u32
CharFromU32(v) == IF IsScalar(v) THEN [kind |-> "some", ch |-> v] ELSE [kind |-> "none"]

\* m[from..to] on a str: byte offsets; panics when an offset is not a char boundary
\* or is past the end.
RECURSIVE Boundaries(_, _)
Boundaries(s, at) ==
  IF s = <<>> THEN {at} ELSE {at} \cup Boundaries(Tail(s), at + Utf8Len(Head(s)))

RECURSIVE CharsWithin(_, _, _, _)
CharsWithin(s, at, from, to) ==
  IF s = <<>> THEN <<>>
  ELSE (IF at >= from /\ at < to THEN <<Head(s)>> ELSE <<>>)
       \o CharsWithin(Tail(s), at + Utf8Len(Head(s)), from, to)

StrSlice(s, from, to) ==
  IF from <= to /\ {from, to} \subseteq Boundaries(s, 0)
  THEN Ok(CharsWithin(s, 0, from, to))
  ELSE Panic

\* the threshold of `if m.len() > 2`
ESCAPE_LEN_THRESHOLD == 2

\* Variant: the fallback keeps only the first two characters of the match.
UnescapeReplacement_FallbackTwo(m) ==
  IF ByteLen(m) > ESCAPE_LEN_THRESHOLD
  THEN LET parsed == FromStrRadix(StrTrim(Tail(m)))
           ch == IF parsed.kind = "ok" THEN CharFromU32(parsed.val) ELSE [kind |-> "none"]
       IN IF ch.kind = "some" THEN Ok(<<ch.ch>>) ELSE Ok(Take(m, 2))
  ELSE StrSlice(m, 1, 2)

\* Variant: the length test counts characters (m.chars().count()), the slice
\* still counts bytes.
UnescapeReplacement_CharCount(m) ==
  IF Len(m) > ESCAPE_LEN_THRESHOLD
  THEN LET parsed == FromStrRadix(StrTrim(Tail(m)))
           ch == IF parsed.kind = "ok" THEN CharFromU32(parsed.val) ELSE [kind |-> "none"]
       IN IF ch.kind = "some" THEN Ok(<<ch.ch>>) ELSE Ok(m)
  ELSE StrSlice(m, 1, 2)

\* The closure of replace_all, applied to the matched text m (caps.get(0)).
UnescapeReplacement(m) ==
  IF ByteLen(m) > ESCAPE_LEN_THRESHOLD
  THEN LET parsed == FromStrRadix(StrTrim(Tail(m)))
           ch == IF parsed.kind = "ok" THEN CharFromU32(parsed.val) ELSE [kind |-> "none"]
       IN IF ch.kind = "some" THEN Ok(<<ch.ch>>) ELSE Ok(m)   \* unwrap_or(caps[0])
  ELSE StrSlice(m, 1, 2)

RECURSIVE Unescape(_)
Unescape(s) ==
  IF s = <<>> THEN Ok(<<>>)
  ELSE LET k == UnescapeMatchLen(s)
       IN IF k = 0
          THEN LET rest == Unescape(Tail(s))
               IN IF rest.kind = "ok" THEN Ok(<<s[1]>> \o rest.val) ELSE Panic
          ELSE LET rep == UnescapeReplacement(Take(s, k))
                   rest == Unescape(Drop(s, k))
               IN IF rep.kind = "ok" /\ rest.kind = "ok" THEN Ok(rep.val \o rest.val) ELSE Panic

(***************************************************************************)
(* Step 4: DATA.is_match(result), ^(?i)data:                               *)
(***************************************************************************)
AsciiLower(c) == IF c >= 65 /\ c <= 90 THEN c + 32 ELSE c

DataPrefix == <<100, 97, 116, 97, 58>>

\* Variant: the (?i) flag is missing.
IsDataUri_CaseSensitive(s) ==
  /\ Len(s) >= Len(DataPrefix)
  /\ \A i \in 1..Len(DataPrefix) : s[i] = DataPrefix[i]

IsDataUri(s) ==
  /\ Len(s) >= Len(DataPrefix)
  /\ \A i \in 1..Len(DataPrefix) : AsciiLower(s[i]) = DataPrefix[i]

(***************************************************************************)
(* Step 5: urlencoding::decode(result)                                     *)
(***************************************************************************)
ContainsPercent(s) == \E i \in 1..Len(s) : s[i] = PERCENT

\* decode_binary: %XX with two hex digits becomes one byte; a '%' not followed
\* by two hex digits is kept as it is.
RECURSIVE DecodeBinary(_)
DecodeBinary(b) ==
  IF b = <<>> THEN <<>>
  ELSE IF b[1] # PERCENT THEN <<b[1]>> \o DecodeBinary(Tail(b))
  ELSE IF Len(b) < 3 THEN b
  ELSE IF ~IsHexDigit(b[2]) THEN <<PERCENT>> \o DecodeBinary(Tail(b))
  ELSE IF ~IsHexDigit(b[3]) THEN <<PERCENT, b[2]>> \o DecodeBinary(Drop(b, 2))
  ELSE <<HexDigitValue(b[2]) * RADIX + HexDigitValue(b[3])>> \o DecodeBinary(Drop(b, 3))

UrlDecode(s) == Utf8Decode(DecodeBinary(Utf8Encode(s)))

(***************************************************************************)
(* normalize_url                                                           *)
(***************************************************************************)
UrlStep3(s) == Unescape(TrimWhiteSpaces(StripLineContinuations(s)))

normalize_url(s) ==
  LET result == UrlStep3(s)
  IN IF result.kind # "ok" THEN Panic
     ELSE IF IsDataUri(result.val) THEN Ok(result.val)
     ELSE IF ContainsPercent(result.val)
          THEN LET r == UrlDecode(result.val)
               IN IF r.kind = "ok" THEN Ok(r.val) ELSE Ok(result.val)
          ELSE Ok(result.val)

(***************************************************************************)
(* new_name_for.  Text is a sequence of one-character strings.             *)
(***************************************************************************)
MaxPathLen == 2
MaxLocalLen == 1
MaxTemplateLen == 2
DigestHexLen == 2

Digits == {"0", "1", "2", "3", "4", "5", "6", "7", "8", "9"}
HexChars == <<"0", "1", "2", "3", "4", "5", "6", "7", "8", "9", "a", "b", "c", "d", "e", "f">>

RECURSIVE Texts(_, _)
Texts(alphabet, n) ==
  IF n = 0 THEN {<<>>}
  ELSE LET prev == Texts(alphabet, n - 1)
       IN prev \cup {t \o <<c>> : t \in prev, c \in alphabet}

\* the byte of a character of the model's alphabets
ByteOf(c) ==
  CASE c = "/" -> 47 [] c = "." -> 46 [] c = "a" -> 97 [] c = "b" -> 98
    [] c = "1" -> 49 [] c = "s" -> 115 [] c = "_" -> 95 [] OTHER -> 63

RECURSIVE BytesOf(_)
BytesOf(t) == IF t = <<>> THEN <<>> ELSE <<ByteOf(Head(t))>> \o BytesOf(Tail(t))

\* Path components as Path::hash walks them: separators are skipped, and so is
\* a "." component that follows a separator.
RECURSIVE PathComponents(_, _, _)
PathComponents(p, current, afterSep) ==
  IF p = <<>> THEN IF current = <<>> THEN <<>> ELSE <<current>>
  ELSE IF Head(p) = "/"
       THEN (IF current = <<>> THEN <<>> ELSE <<current>>) \o PathComponents(Tail(p), <<>>, TRUE)
       ELSE IF afterSep /\ current = <<>> /\ Head(p) = "."
               /\ (Len(p) = 1 \/ p[2] = "/")
            THEN PathComponents(Tail(p), <<>>, TRUE)
            ELSE PathComponents(Tail(p), current \o <<Head(p)>>, afterSep)

RECURSIVE FlattenBytes(_)
FlattenBytes(cs) == IF cs = <<>> THEN <<>> ELSE BytesOf(Head(cs)) \o FlattenBytes(Tail(cs))

RECURSIVE ComponentLengths(_)
ComponentLengths(cs) ==
  IF cs = <<>> THEN <<>> ELSE <<Len(Head(cs))>> \o ComponentLengths(Tail(cs))

\* self.filename.hash(&mut hasher): the bytes of each component, then one word
\* computed from the component lengths (written here as those lengths).
PathHashWrites(p) ==
  LET cs == PathComponents(p, <<>>, FALSE)
  IN FlattenBytes(cs) \o ComponentLengths(cs)

\* local.hash(&mut hasher): the bytes of the name
LocalHashWrites(l) == BytesOf(l)

\* RspackHash::with_salt: the salt is fed to the hasher first
SaltHashWrites(salt) == BytesOf(salt)

\* hasher.digest(hash_digest): a hex digest of DigestHexLen characters.  The
\* hash function is a stand-in: a multiplicative checksum of the written
\* words, which, like any digest of fixed length, has collisions.
RECURSIVE Checksum(_, _)
Checksum(ws, acc) ==
  IF ws = <<>> THEN acc ELSE Checksum(Tail(ws), (acc * 31 + Head(ws)) % 65536)

RECURSIVE HexRender(_, _)
HexRender(v, n) ==
  IF n = 0 THEN <<>> ELSE HexRender(v \div 16, n - 1) \o <<HexChars[(v % 16) + 1]>>

Digest(ws) == HexRender(Checksum(ws, 7), DigestHexLen)

Min(a, b) == IF a < b THEN a ELSE b

\* hash.rendered(hash_digest_length)
Rendered(digest, length) == Take(digest, Min(Len(digest), length))

\* lines 48-52: the hasher is fed the salt, the path, then the local name
RenderedHash(path, l, cfg) ==
  Rendered(Digest(SaltHashWrites(cfg.hash_salt) \o PathHashWrites(path) \o LocalHashWrites(l)),
           cfg.hash_digest_length)

\* Variant: the hash is used as rendered.
GuardLeadingDigit_Unguarded(hash) == IF hash = <<>> THEN Panic ELSE Ok(hash)

\* Variant: the leading digit is replaced by the underscore instead of prefixed.
GuardLeadingDigit_ReplacesDigit(hash) ==
  IF hash = <<>> THEN Panic
  ELSE IF hash[1] \in Digits THEN Ok(<<"_">> \o Tail(hash)) ELSE Ok(hash)

\* lines 53-57: hash.as_bytes()[0] panics on an empty hash
GuardLeadingDigit(hash) ==
  IF hash = <<>> THEN Panic
  ELSE IF hash[1] \in Digits THEN Ok(<<"_">> \o hash) ELSE Ok(hash)

\* LocalIdentName::render: each placeholder of the template is replaced by the
\* path, the hash or the local name; other text passes through.
RECURSIVE RenderTemplate(_, _, _, _)
RenderTemplate(template, path, hash, l) ==
  IF template = <<>> THEN <<>>
  ELSE (CASE Head(template) = "[hash]" -> hash
          [] Head(template) = "[local]" -> l
          [] Head(template) = "[path]" -> path
          [] OTHER -> <<Head(template)>>)
       \o RenderTemplate(Tail(template), path, hash, l)

new_name_for(path, l, cfg) ==
  LET hash == GuardLeadingDigit(RenderedHash(path, l, cfg))
  IN IF hash.kind # "ok" THEN Panic
     ELSE Ok(RenderTemplate(cfg.local_name_ident, path, hash.val, l))

PathChars == {"/", ".", "a"}
LocalChars == {"a", "1"}
TemplateTokens == {"[hash]", "[local]", "[path]"}

Paths == Texts(PathChars, MaxPathLen) \ {<<>>}
Locals == Texts(LocalChars, MaxLocalLen) \ {<<>>}
Templates == Texts(TemplateTokens, MaxTemplateLen) \ {<<>>}
Salts == {<<>>, <<"s">>}

\* hash_digest_length: empty, truncating, the whole digest, longer than the digest
DigestLengths == {0, 1, DigestHexLen, DigestHexLen + 1}

Configs ==
  [local_name_ident : Templates, hash_digest_length : DigestLengths, hash_salt : Salts]

NoConfig == [local_name_ident |-> <<>>, hash_digest_length |-> 0, hash_salt |-> <<>>]

(***************************************************************************)
(* css_modules_exports_to_string.  Text is a sequence of one-character     *)
(* strings; requests and module identifiers are atoms.                     *)
(***************************************************************************)
MaxKeys == 2
MaxDeps == 2

Str_Header == <<"m","o","d","u","l","e",".","e","x","p","o","r","t","s"," ","=", " ","{","\n">>
Str_Footer == <<"}", ";", "\n">>
Str_Join == <<" ", "+", " ", "\"", " ", "\"", " ", "+", " ">>
\* RuntimeGlobals::REQUIRE
REQUIRE == <<"_","_","w","e","b","p","a","c","k","_","r","e","q","u","i","r","e","_","_">>

\* serde_json::to_string of a string: quotes around the escaped characters
JsonEscapeChar(c) ==
  CASE c = "\"" -> <<"\\", "\"">>
    [] c = "\\" -> <<"\\", "\\">>
    [] c = "\n" -> <<"\\", "n">>
    [] OTHER -> <<c>>

RECURSIVE JsonEscape(_)
JsonEscape(t) == IF t = <<>> THEN <<>> ELSE JsonEscapeChar(Head(t)) \o JsonEscape(Tail(t))

JsonString(t) == <<"\"">> \o JsonEscape(t) \o <<"\"">>

\* heck: word splitting and casing
LowerLetters == {"a", "b", "c", "q"}
UpperLetters == {"A", "B", "C", "Q"}
IsAlphanumeric(c) == c \in LowerLetters \cup UpperLetters \cup Digits

ToLower(c) == CASE c = "A" -> "a" [] c = "B" -> "b" [] c = "C" -> "c" [] c = "Q" -> "q" [] OTHER -> c
ToUpper(c) == CASE c = "a" -> "A" [] c = "b" -> "B" [] c = "c" -> "C" [] c = "q" -> "Q" [] OTHER -> c

RECURSIVE Lowercase(_)
Lowercase(t) == IF t = <<>> THEN <<>> ELSE <<ToLower(Head(t))>> \o Lowercase(Tail(t))

Capitalize(t) == IF t = <<>> THEN <<>> ELSE <<ToUpper(Head(t))>> \o Lowercase(Tail(t))

\* s.split(|c| !c.is_alphanumeric()), empty pieces dropped
RECURSIVE SplitAlphanumeric(_, _)
SplitAlphanumeric(t, current) ==
  IF t = <<>> THEN IF current = <<>> THEN <<>> ELSE <<current>>
  ELSE IF IsAlphanumeric(Head(t))
       THEN SplitAlphanumeric(Tail(t), current \o <<Head(t)>>)
       ELSE (IF current = <<>> THEN <<>> ELSE <<current>>) \o SplitAlphanumeric(Tail(t), <<>>)

\* the word-boundary scan inside one piece: a boundary after a lowercase
\* character followed by an uppercase one, and before the last of a run of
\* uppercase characters when a lowercase one follows
RECURSIVE CaseWords(_, _, _, _)
CaseWords(w, init, i, mode) ==
  IF i = Len(w) THEN <<SubSeq(w, init, Len(w))>>
  ELSE LET c == w[i]
           next == w[i + 1]
           next_mode == IF c \in LowerLetters THEN "Lowercase"
                        ELSE IF c \in UpperLetters THEN "Uppercase"
                        ELSE mode
       IN IF next_mode = "Lowercase" /\ next \in UpperLetters
          THEN <<SubSeq(w, init, i)>> \o CaseWords(w, i + 1, i + 1, "Boundary")
          ELSE IF mode = "Uppercase" /\ c \in UpperLetters /\ next \in LowerLetters
               THEN <<SubSeq(w, init, i - 1)>> \o CaseWords(w, i, i + 1, "Boundary")
               ELSE CaseWords(w, init, i + 1, next_mode)

RECURSIVE WordsOfPieces(_)
WordsOfPieces(ps) ==
  IF ps = <<>> THEN <<>> ELSE CaseWords(Head(ps), 1, 1, "Boundary") \o WordsOfPieces(Tail(ps))

Words(t) == WordsOfPieces(SplitAlphanumeric(t, <<>>))

RECURSIVE JoinCapitalized(_)
JoinCapitalized(ws) ==
  IF ws = <<>> THEN <<>> ELSE Capitalize(Head(ws)) \o JoinCapitalized(Tail(ws))

to_lower_camel_case(t) ==
  LET ws == Words(t)
  IN IF ws = <<>> THEN <<>> ELSE Lowercase(Head(ws)) \o JoinCapitalized(Tail(ws))

RECURSIVE JoinDashed(_)
JoinDashed(ws) ==
  IF ws = <<>> THEN <<>>
  ELSE IF Len(ws) = 1 THEN Lowercase(Head(ws))
  ELSE Lowercase(Head(ws)) \o <<"-">> \o JoinDashed(Tail(ws))

to_kebab_case(t) == JoinDashed(Words(t))

\* CssClassName
Local(n) == [type |-> "Local", name |-> n]
Global(n) == [type |-> "Global", name |-> n]
Import(n, from) == [type |-> "Import", name |-> n, from |-> from]

\* The module graph and the chunk graph: the dependencies the graph knows, the
\* request of each, the module each resolves to (NoModule when it has none),
\* and the id of each module.
NoModule == "NoModule"
NoMgm == [present |-> FALSE]
Mgm(deps) == [present |-> TRUE, dependencies |-> deps]
Pending == [kind |-> "pending"]

DependencyIds == {"d1", "d2", "d3", "d4", "d5"}

\* module_graph.dependency_by_id: d5 is unknown to the graph
dependency_by_id(id) ==
  CASE id = "d1" -> [kind |-> "some", request |-> "./x.css"]
    [] id = "d2" -> [kind |-> "some", request |-> "./x.css"]
    [] id = "d3" -> [kind |-> "some", request |-> "./x.css"]
    [] id = "d4" -> [kind |-> "some", request |-> "./y.css"]
    [] OTHER -> [kind |-> "none"]

\* module_graph.module_graph_module_by_dependency_id: d2 has no module
module_graph_module_by_dependency_id(id) ==
  CASE id = "d1" -> "mX" [] id = "d3" -> "mZ" [] id = "d4" -> "mY" [] OTHER -> NoModule

\* mgm.id(&compilation.chunk_graph)
ModuleId(m) == CASE m = "mX" -> <<"x">> [] m = "mZ" -> <<"z", "\"">> [] OTHER -> <<"y">>

\* Variant: find(...).and_then(...): the first dependency with the request
\* decides, whether or not it has a module.
RECURSIVE FindMap_FirstRequestMatch(_, _)
FindMap_FirstRequestMatch(deps, from) ==
  IF deps = <<>> THEN NoModule
  ELSE LET id == Head(deps)
           dependency == dependency_by_id(id)
       IN IF dependency.kind = "some" /\ dependency.request = from
          THEN module_graph_module_by_dependency_id(id)
          ELSE FindMap_FirstRequestMatch(Tail(deps), from)

\* lines 93-103: find_map over mgm.dependencies
RECURSIVE FindMap(_, _)
FindMap(deps, from) ==
  IF deps = <<>> THEN NoModule
  ELSE LET id == Head(deps)
           dependency == dependency_by_id(id)
           found == IF dependency.kind = "some" /\ dependency.request = from
                    THEN module_graph_module_by_dependency_id(id)
                    ELSE NoModule
       IN IF found # NoModule THEN found ELSE FindMap(Tail(deps), from)

\* lines 88-105: .and_then(...).expect("should have css from module")
ResolveFrom(mgm, from) ==
  LET found == IF ~mgm.present THEN NoModule ELSE FindMap(mgm.dependencies, from)
  IN IF found = NoModule THEN Panic ELSE Ok(found)

\* Variant: module id and export name change places in the require expression.
ElementExpr_SwappedOperands(element, mgm) ==
  IF element.type \in {"Local", "Global"} THEN Ok(JsonString(element.name))
  ELSE LET name == JsonString(element.name)
           from == ResolveFrom(mgm, element.from)
       IN IF from.kind # "ok" THEN Panic
          ELSE Ok(REQUIRE \o <<"(">> \o name \o <<")", "[">>
                  \o JsonString(ModuleId(from.val)) \o <<"]">>)

\* lines 81-110: the expression of one element
ElementExpr(element, mgm) ==
  IF element.type \in {"Local", "Global"} THEN Ok(JsonString(element.name))
  ELSE LET name == JsonString(element.name)
           from == ResolveFrom(mgm, element.from)
       IN IF from.kind # "ok" THEN Panic
          ELSE Ok(REQUIRE \o <<"(">> \o JsonString(ModuleId(from.val)) \o <<")", "[">>
                  \o name \o <<"]">>)

\* lines 79-112: map, collect, join
RECURSIVE Content(_, _)
Content(elements, mgm) ==
  IF elements = <<>> THEN Ok(<<>>)
  ELSE LET first == ElementExpr(Head(elements), mgm)
           rest == Content(Tail(elements), mgm)
       IN IF first.kind # "ok" \/ rest.kind # "ok" THEN Panic
          ELSE IF Tail(elements) = <<>> THEN first
          ELSE Ok(first.val \o Str_Join \o rest.val)

\* writeln!(code, "  {}: {},", key, content)
Line(key, content) == <<" ", " ">> \o JsonString(key) \o <<":", " ">> \o content \o <<",", "\n">>

\* Variant: a convention whose key equals one already written is skipped.
KeyLines_Deduplicated(key, content, convention) ==
  LET camel == to_lower_camel_case(key)
      kebab == to_kebab_case(key)
      asIs == "as_is" \in convention
      camelCase == "camel_case" \in convention /\ ~(asIs /\ camel = key)
      dashes == "dashes" \in convention /\ ~(asIs /\ kebab = key) /\ ~(camelCase /\ kebab = camel)
  IN (IF asIs THEN Line(key, content) ELSE <<>>)
     \o (IF camelCase THEN Line(camel, content) ELSE <<>>)
     \o (IF dashes THEN Line(kebab, content) ELSE <<>>)

\* lines 113-139: the lines of one key
KeyLines(key, content, convention) ==
  (IF "as_is" \in convention THEN Line(key, content) ELSE <<>>)
  \o (IF "camel_case" \in convention THEN Line(to_lower_camel_case(key), content) ELSE <<>>)
  \o (IF "dashes" \in convention THEN Line(to_kebab_case(key), content) ELSE <<>>)

\* lines 78-140: the loop over the table
RECURSIVE Body(_, _, _)
Body(table, mgm, convention) ==
  IF table = <<>> THEN Ok(<<>>)
  ELSE LET content == Content(Head(table).elements, mgm)
       IN IF content.kind # "ok" THEN Panic
          ELSE LET rest == Body(Tail(table), mgm, convention)
               IN IF rest.kind # "ok" THEN Panic
                  ELSE Ok(KeyLines(Head(table).key, content.val, convention) \o rest.val)

css_modules_exports_to_string(table, mgm, convention) ==
  LET body == Body(table, mgm, convention)
  IN IF body.kind # "ok" THEN Panic ELSE Ok(Str_Header \o body.val \o Str_Footer)

\* Inputs.  Module "A" is the module whose table and dependency list vary;
\* module "B" has one export composed from ./y.css, which its one dependency
\* resolves.
Modules == {"A", "B"}
Conventions == {"as_is", "camel_case", "dashes"}

KeyPool == { <<"a">>, <<"a", "B">>, <<"b", "-", "a">>, <<"A", "B", "c">>, <<"q", "\"">> }

ElementLists ==
  { <<Local(<<"a">>)>>,
    <<Global(<<"q", "\"">>)>>,
    <<Local(<<"a">>), Import(<<"b">>, "./x.css")>>,
    <<Import(<<"c">>, "./y.css"), Global(<<"b">>), Import(<<"c">>, "./x.css")>> }

RECURSIVE DistinctSeqs(_, _)
DistinctSeqs(pool, n) ==
  IF n = 0 THEN {<<>>}
  ELSE LET prev == DistinctSeqs(pool, n - 1)
       IN prev \cup {t \o <<x>> : t \in {u \in prev : Len(u) = n - 1},
                                  x \in pool} 

HasNoRepeat(t) == \A i, j \in 1..Len(t) : i # j => t[i] # t[j]

KeyLists == {t \in DistinctSeqs(KeyPool, MaxKeys) : HasNoRepeat(t)}

TablesOver(keys) ==
  {[i \in 1..Len(keys) |-> [key |-> keys[i], elements |-> f[i]]] :
     f \in [1..Len(keys) -> ElementLists]}

Tables == UNION {TablesOver(keys) : keys \in KeyLists}

DependencyLists == {t \in DistinctSeqs(DependencyIds, MaxDeps) : HasNoRepeat(t)}

TableB == <<[key |-> <<"b">>, elements |-> <<Import(<<"c">>, "./y.css")>>]>>
DependenciesB == <<"d4">>
DependenciesResolving == <<"d5", "d2", "d1", "d4">>

(***************************************************************************)
(* Inputs of normalize_url: every concatenation of at most MaxPieces       *)
(* pieces.  Single characters are pieces, so every string over them up to  *)
(* that length is an input; the longer pieces bring the data: prefix, a    *)
(* surrogate escape and percent sequences within reach.                    *)
(***************************************************************************)
UrlPieces ==
  { <<BACKSLASH>>,                 \* \
    <<52>>, <<49>>,                \* 4 1
    <<100, 56, 48, 48>>,           \* d800
    <<68, 97, 84, 97, 58>>,        \* DaTa:
    <<100, 97, 116, 97, 58>>,      \* data:
    <<PERCENT>>,                   \* %
    <<PERCENT, 67, 51>>,           \* %C3
    <<PERCENT, 65, 57>>,           \* %A9
    <<32>>, <<10>>,                \* space, newline
    <<233>> }                      \* e-acute (two bytes)

RECURSIVE UrlInputs(_)
UrlInputs(n) ==
  IF n = 0 THEN {<<>>}
  ELSE LET prev == UrlInputs(n - 1)
       IN prev \cup {p \o q : p \in prev, q \in UrlPieces}

(***************************************************************************)
(* The three operations as state machines.  Each specification starts one  *)
(* operation on inputs drawn from its bounded sets; the variables of the   *)
(* other two stay idle.                                                    *)
(***************************************************************************)
UrlIdle == raw = NoText /\ urlPc = "idle" /\ urlOut = Ok(NoText)

NameIdle ==
  /\ filename = NoText /\ local = NoText /\ config = NoConfig
  /\ namePc = "idle" /\ ident = Ok(NoText)

SerIdle ==
  /\ exports = [m \in Modules |-> <<>>]
  /\ locals_convention = {}
  /\ dependencies = [m \in Modules |-> NoMgm]
  /\ code = [m \in Modules |-> Ok(NoText)]
  /\ alive = FALSE

UrlInit ==
  /\ raw \in UrlInputs(MaxPieces)
  /\ urlPc = "start"
  /\ urlOut = Ok(NoText)
  /\ NameIdle
  /\ SerIdle

NormalizeUrl ==
  /\ urlPc = "start"
  /\ urlOut' = normalize_url(raw)
  /\ urlPc' = "done"
  /\ UNCHANGED <<raw, nameVars, serVars>>

UrlNext == NormalizeUrl

SpecUrl == UrlInit /\ [][UrlNext]_vars

NameInit ==
  /\ filename \in Paths
  /\ local \in Locals
  /\ config \in Configs
  /\ namePc = "start"
  /\ ident = Ok(NoText)
  /\ UrlIdle
  /\ SerIdle

NewNameFor ==
  /\ namePc = "start"
  /\ ident' = new_name_for(filename, local, config)
  /\ namePc' = "done"
  /\ UNCHANGED <<filename, config, local, urlVars, serVars>>

NameNext == NewNameFor

SpecName == NameInit /\ [][NameNext]_vars

\* every table under every convention set, with a graph that resolves both requests
SerInitTables ==
  /\ exports \in {[A |-> t, B |-> TableB] : t \in Tables}
  /\ locals_convention \in SUBSET Conventions
  /\ dependencies = [A |-> Mgm(DependenciesResolving), B |-> Mgm(DependenciesB)]

\* every dependency list (or no graph entry) under one-key tables
SerInitGraphs ==
  /\ exports \in {[A |-> <<[key |-> <<"a", "B">>, elements |-> e]>>, B |-> TableB] :
                   e \in ElementLists}
  /\ locals_convention \in {{"as_is"}, {"camel_case", "dashes"}}
  /\ dependencies \in {[A |-> g, B |-> Mgm(DependenciesB)] :
                        g \in {Mgm(d) : d \in DependencyLists} \cup {NoMgm}}

SerInit ==
  /\ SerInitTables \/ SerInitGraphs
  /\ code = [m \in Modules |-> Pending]
  /\ alive = TRUE
  /\ UrlIdle
  /\ NameIdle

\* One call of css_modules_exports_to_string for module m.  A panic either
\* unwinds out of this module's task or, in a build with panic = "abort", ends
\* the process.
Serialize(m) ==
  /\ alive
  /\ code[m] = Pending
  /\ LET r == css_modules_exports_to_string(exports[m], dependencies[m], locals_convention)
     IN /\ code' = [code EXCEPT ![m] = r]
        /\ IF r.kind = "panic" THEN alive' \in BOOLEAN ELSE alive' = alive
  /\ UNCHANGED <<exports, locals_convention, dependencies, urlVars, nameVars>>

SerNext == \E m \in Modules : Serialize(m)

SpecSer == SerInit /\ [][SerNext]_vars

(***************************************************************************)
(* Claims about css_modules_exports_to_string (specification SpecSer)      *)
(***************************************************************************)
StartsWith(t, prefix) == Len(t) >= Len(prefix) /\ Take(t, Len(prefix)) = prefix

\* the lines of a text, each without its line feed
LineEnds(t) == {i \in 1..Len(t) : t[i] = "\n"}

RECURSIVE SplitLines(_, _)
SplitLines(t, from) ==
  LET ends == {i \in LineEnds(t) : i >= from}
  IN IF ends = {} THEN IF from > Len(t) THEN <<>> ELSE <<SubSeq(t, from, Len(t))>>
     ELSE LET e == CHOOSE i \in ends : \A j \in ends : i <= j
          IN <<SubSeq(t, from, e - 1)>> \o SplitLines(t, e + 1)

\* the property lines: what stands between the header line and the footer line
PropertyLines(text) ==
  LET lines == SplitLines(text, 1) IN SubSeq(lines, 2, Len(lines) - 1)

IsEnabled(c) == c \in locals_convention
EnabledInOrder == SelectSeq(<<"as_is", "camel_case", "dashes">>, IsEnabled)

TransformedKey(key, c) ==
  CASE c = "as_is" -> key
    [] c = "camel_case" -> to_lower_camel_case(key)
    [] c = "dashes" -> to_kebab_case(key)

\* the text a property line starts with: two spaces, the JSON key, colon, space
KeyPrefix(key, c) == <<" ", " ">> \o JsonString(TransformedKey(key, c)) \o <<":", " ">>

\* key and convention of the n-th property line when each key has one line per
\* enabled convention
KeyOfLine(table, n) == table[((n - 1) \div Len(EnabledInOrder)) + 1].key
ElementsOfLine(table, n) == table[((n - 1) \div Len(EnabledInOrder)) + 1].elements
ConventionOfLine(n) == EnabledInOrder[((n - 1) % Len(EnabledInOrder)) + 1]

\* C2: the property lines are, for each key in insertion order, one line per
\* enabled convention in the order as-is, camel case, kebab case: their number
\* is keys x conventions and none is dropped or merged.
C2_LinesInTableThenConventionOrder ==
  \A m \in Modules :
    code[m].kind = "ok" =>
      LET lines == PropertyLines(code[m].val)
      IN /\ StartsWith(code[m].val, Str_Header)
         /\ SubSeq(code[m].val, Len(code[m].val) - 2, Len(code[m].val)) = Str_Footer
         /\ Len(lines) = Len(exports[m]) * Cardinality(locals_convention)
         /\ \A n \in 1..Len(lines) :
              StartsWith(lines[n], KeyPrefix(KeyOfLine(exports[m], n), ConventionOfLine(n)))

\* keys b-a then a (not sorted) under all three conventions: six lines, three
\* of them with the same key "a"
C2_Witness ==
  /\ code["A"].kind = "ok"
  /\ locals_convention = Conventions
  /\ Len(exports["A"]) = 2
  /\ exports["A"][1].key = <<"b", "-", "a">>
  /\ exports["A"][2].key = <<"a">>
  /\ Len(PropertyLines(code["A"].val)) = 6
  /\ to_lower_camel_case(<<"a">>) = to_kebab_case(<<"a">>)

\* the first dependency, in list order, whose request is `from` and which has a
\* module in the graph; NoModule when there is none
FirstResolvable(mgm, from) ==
  IF ~mgm.present THEN NoModule
  ELSE LET hits == {i \in 1..Len(mgm.dependencies) :
                      /\ dependency_by_id(mgm.dependencies[i]).kind = "some"
                      /\ dependency_by_id(mgm.dependencies[i]).request = from
                      /\ module_graph_module_by_dependency_id(mgm.dependencies[i]) # NoModule}
       IN IF hits = {} THEN NoModule
          ELSE module_graph_module_by_dependency_id(
                 mgm.dependencies[CHOOSE i \in hits : \A j \in hits : i <= j])

\* expr(e): the JSON literal of a local or global name, or
\* REQUIRE(<JSON of the resolved module id>)[<JSON of name>] for an import
SpecExpr(e, mgm) ==
  IF e.type = "Import"
  THEN REQUIRE \o <<"(">> \o JsonString(ModuleId(FirstResolvable(mgm, e.from)))
       \o <<")", "[">> \o JsonString(e.name) \o <<"]">>
  ELSE JsonString(e.name)

RECURSIVE SpecJoined(_, _)
SpecJoined(es, mgm) ==
  IF Len(es) = 1 THEN SpecExpr(es[1], mgm)
  ELSE SpecJoined(Take(es, Len(es) - 1), mgm)
       \o <<" ", "+", " ", "\"", " ", "\"", " ", "+", " ">> \o SpecExpr(es[Len(es)], mgm)

\* C3: on every line of a key with entries e1..en, the value is expr(e1) ...
\* expr(en) joined by ` + " " + ` in declaration order, the same on each
\* convention line of the key.
C3_ValueIsJoinedExpressions ==
  \A m \in Modules :
    code[m].kind = "ok" =>
      LET lines == PropertyLines(code[m].val)
      IN \A n \in 1..Len(lines) :
           LET prefix == KeyPrefix(KeyOfLine(exports[m], n), ConventionOfLine(n))
           IN SubSeq(lines[n], Len(prefix) + 1, Len(lines[n]))
                = SpecJoined(ElementsOfLine(exports[m], n), dependencies[m]) \o <<",">>

\* a key composed of a local name and an import, emitted under two conventions
C3_Witness ==
  /\ code["A"].kind = "ok"
  /\ Cardinality(locals_convention) = 2
  /\ \E i \in 1..Len(exports["A"]) :
       exports["A"][i].elements = <<Local(<<"a">>), Import(<<"b">>, "./x.css")>>
  /\ \E n \in 1..Len(PropertyLines(code["A"].val)) :
       PropertyLines(code["A"].val)[n] =
         <<" ", " ", "\"", "a", "\"", ":", " ", "\"", "a", "\"", " ", "+", " ", "\"", " ", "\"",
           " ", "+", " ">> \o REQUIRE \o <<"(", "\"", "x", "\"", ")", "[", "\"", "b", "\"", "]", ",">>

Imports(table) ==
  {e \in UNION {{table[i].elements[j] : j \in 1..Len(table[i].elements)} : i \in 1..Len(table)} :
     e.type = "Import"}

\* text contains part as a contiguous run
Contains(text, part) ==
  \E i \in 0..(Len(text) - Len(part)) : SubSeq(text, i + 1, i + Len(part)) = part

RequireOf(module, name) ==
  REQUIRE \o <<"(">> \o JsonString(ModuleId(module)) \o <<")", "[">> \o JsonString(name) \o <<"]">>

\* no dependency of the module has the request `from`
NoDependencyRequests(mgm, from) ==
  /\ mgm.present
  /\ \A i \in 1..Len(mgm.dependencies) :
       \/ dependency_by_id(mgm.dependencies[i]).kind = "none"
       \/ dependency_by_id(mgm.dependencies[i]).request # from

\* C1 (as claimed): a module with an import whose request no dependency of the
\* module has ends its call with an error value; the process is not brought
\* down, so the calls for the other modules still take place.
C1_MissingDependencyIsError ==
  \A m \in Modules :
    (/\ code[m] # Pending
     /\ \E e \in Imports(exports[m]) : NoDependencyRequests(dependencies[m], e.from))
      => (code[m].kind = "err" /\ alive)

\* C10: when every import of the module has a resolvable dependency the call
\* returns, and (when lines are emitted at all, that is under at least one
\* convention) the module required for an import is the target of the first
\* dependency, in list order, whose request equals `from` and which has a
\* module: never one with another request, never a later one.
C10_FirstResolvableDependencyWins ==
  \A m \in Modules :
    (/\ code[m] # Pending
     /\ \A e \in Imports(exports[m]) : FirstResolvable(dependencies[m], e.from) # NoModule)
      => /\ code[m].kind = "ok"
         /\ locals_convention # {} =>
            \A e \in Imports(exports[m]) :
              \A target \in {"mX", "mY", "mZ"} :
                Contains(code[m].val, RequireOf(target, e.name))
                  <=> \E f \in Imports(exports[m]) :
                        /\ f.name = e.name
                        /\ target = FirstResolvable(dependencies[m], f.from)

\* the dependency list d2, d3: d2 has the request but no module, d3 resolves
C10_Witness ==
  /\ code["A"].kind = "ok"
  /\ dependencies["A"] = Mgm(<<"d2", "d3">>)
  /\ exports["A"][1].elements = <<Local(<<"a">>), Import(<<"b">>, "./x.css")>>
  /\ Contains(code["A"].val, RequireOf("mZ", <<"b">>))

C10_WitnessEarliest ==
  /\ code["A"].kind = "ok"
  /\ dependencies["A"] = Mgm(<<"d3", "d1">>)
  /\ exports["A"][1].elements = <<Local(<<"a">>), Import(<<"b">>, "./x.css")>>
  /\ Contains(code["A"].val, RequireOf("mZ", <<"b">>))
  /\ ~Contains(code["A"].val, RequireOf("mX", <<"b">>))

(***************************************************************************)
(* Claims about normalize_url (specification SpecUrl)                      *)
(***************************************************************************)
UrlStep2(s) == TrimWhiteSpaces(StripLineContinuations(s))

\* The hex digits of an escape m, without the backslash and without the one
\* terminating white-space character.
EscapeDigits(m) ==
  IF Len(m) > 2 /\ IsCssSpace(m[Len(m)]) THEN SubSeq(m, 2, Len(m) - 1) ELSE Tail(m)

IsHexEscape(m) == Len(m) >= 2 /\ IsHexDigit(m[2])

RECURSIVE HexNumber(_)
HexNumber(d) ==
  IF d = <<>> THEN 0 ELSE HexNumber(Take(d, Len(d) - 1)) * 16 + HexDigitValue(d[Len(d)])

\* Escape resolution as the specification words it: a hex escape becomes the
\* character with that code point (the matched text is kept when that is no
\* code point), any other escaped character becomes that character alone.
RECURSIVE SpecUnescape(_)
SpecUnescape(s) ==
  IF s = <<>> THEN <<>>
  ELSE LET k == UnescapeMatchLen(s)
       IN IF k = 0 THEN <<s[1]>> \o SpecUnescape(Tail(s))
          ELSE LET m == Take(s, k)
                   out == IF IsHexEscape(m)
                          THEN IF IsScalar(HexNumber(EscapeDigits(m)))
                               THEN <<HexNumber(EscapeDigits(m))>> ELSE m
                          ELSE <<m[2]>>
               IN out \o SpecUnescape(Drop(s, k))

\* C6 (as claimed): step 3 replaces every backslash followed by 1 to 6 hex
\* digits (and one optional white-space character) by the character with that
\* code point, and every backslash followed by another character by that
\* character alone.
C6_EveryEscapeDecoded ==
  urlPc = "done" => UrlStep3(raw) = Ok(SpecUnescape(UrlStep2(raw)))

\* The first escape of a text: the text before it, the matched escape, the rest.
RECURSIVE FirstBackslash(_, _)
FirstBackslash(s, i) ==
  IF i > Len(s) THEN 0
  ELSE IF UnescapeMatchLen(Drop(s, i - 1)) > 0 THEN i ELSE FirstBackslash(s, i + 1)

HasEscape(s) == FirstBackslash(s, 1) > 0
EscapeBefore(s) == Take(s, FirstBackslash(s, 1) - 1)
EscapeMatch(s) ==
  LET i == FirstBackslash(s, 1) IN SubSeq(s, i, i + UnescapeMatchLen(Drop(s, i - 1)) - 1)
EscapeAfter(s) ==
  LET i == FirstBackslash(s, 1) IN Drop(s, i + UnescapeMatchLen(Drop(s, i - 1)) - 1)

\* An escape the hex conversion cannot decode: matched text longer than two
\* bytes whose digits are no hex number or whose value is no code point.
Undecodable(m) ==
  /\ ByteLen(m) > 2
  /\ \/ \E i \in 1..Len(EscapeDigits(m)) : ~IsHexDigit(EscapeDigits(m)[i])
     \/ ~IsScalar(HexNumber(EscapeDigits(m)))

\* C7 (as claimed): an escape that cannot be converted is emitted as the
\* original TWO matched characters, and the call does not fail.
C7_FallbackTwoCharacters ==
  (urlPc = "done" /\ HasEscape(UrlStep2(raw)) /\ Undecodable(EscapeMatch(UrlStep2(raw))))
    => LET t == UrlStep2(raw)
           rest == Unescape(EscapeAfter(t))
       IN /\ urlOut.kind = "ok"
          /\ rest.kind = "ok"
          /\ UrlStep3(raw) = Ok(EscapeBefore(t) \o Take(EscapeMatch(t), 2) \o rest.val)

\* C7 (amended): an escape longer than two bytes that cannot be converted is
\* emitted as its entire matched text (backslash, every hex digit, and the
\* terminating white-space character when there is one), and the call does not
\* fail.
C7_FallbackWholeMatch ==
  (urlPc = "done" /\ HasEscape(UrlStep2(raw)) /\ Undecodable(EscapeMatch(UrlStep2(raw))))
    => LET t == UrlStep2(raw)
           rest == Unescape(EscapeAfter(t))
       IN /\ urlOut.kind = "ok"
          /\ rest.kind = "ok"
          /\ UrlStep3(raw) = Ok(EscapeBefore(t) \o EscapeMatch(t) \o rest.val)

\* raw is \d800 followed by a space and 4: a surrogate escape with its terminator
C7_Witness ==
  /\ urlPc = "done"
  /\ raw = <<92, 100, 56, 48, 48, 32, 52>>
  /\ urlOut = Ok(raw)

\* "data:" in any letter case
StartsWithDataAnyCase(s) ==
  /\ Len(s) >= 5
  /\ s[1] \in {100, 68} /\ s[2] \in {97, 65} /\ s[3] \in {116, 84} /\ s[4] \in {97, 65}
  /\ s[5] = 58

\* C8: when the text after steps 1-3 starts with data: in any letter case,
\* normalize_url returns exactly that text, with no percent-decoding.
C8_DataUriUnchanged ==
  (urlPc = "done" /\ UrlStep3(raw).kind = "ok" /\ StartsWithDataAnyCase(UrlStep3(raw).val))
    => urlOut = UrlStep3(raw)

\* raw is DaTa:%C3%A9, which percent-decoding would change
C8_Witness ==
  /\ urlPc = "done"
  /\ raw = <<68, 97, 84, 97, 58, 37, 67, 51, 37, 65, 57>>
  /\ UrlDecode(raw) = Ok(<<68, 97, 84, 97, 58, 233>>)
  /\ urlOut = Ok(raw)

\* C9: normalize_url never panics; when the step-3 text is no data URI and
\* contains %, it returns the percent-decoded text if decoding succeeds and
\* the step-3 text otherwise.
C9_TotalAndDecoded ==
  urlPc = "done" =>
    /\ urlOut.kind = "ok"
    /\ LET t == UrlStep3(raw)
       IN (t.kind = "ok" /\ ~StartsWithDataAnyCase(t.val) /\ \E i \in 1..Len(t.val) : t.val[i] = 37)
            => urlOut = (IF UrlDecode(t.val).kind = "ok" THEN UrlDecode(t.val) ELSE t)

\* raw is a backslash, e-acute, %C3: the escape of a two-byte character followed
\* by a percent sequence that decodes to invalid UTF-8
C9_Witness ==
  /\ urlPc = "done"
  /\ raw = <<92, 233, 37, 67, 51>>
  /\ UrlDecode(UrlStep3(raw).val).kind = "invalid"
  /\ urlOut = Ok(raw)

C9_WitnessDecoded ==
  /\ urlPc = "done"
  /\ raw = <<37, 67, 51, 37, 65, 57, 92>>
  /\ urlOut = Ok(<<233, 92>>)
(***************************************************************************)
(* Claims about new_name_for (specification SpecName)                      *)
(***************************************************************************)
StartsWithDigit(t) == t # <<>> /\ t[1] \in Digits

\* C4 (as claimed): no identifier new_name_for returns starts with a decimal
\* digit, whatever the local name, path, hash configuration and template.
C4_NoLeadingDigit ==
  (namePc = "done" /\ ident.kind = "ok") => ~StartsWithDigit(ident.val)

\* C4 (amended): the hash string substituted into the template never starts
\* with a decimal digit, so every identifier returned under a template that
\* begins with the hash placeholder starts with no decimal digit.
C4_NoLeadingDigitFromHash ==
  (namePc = "done" /\ ident.kind = "ok" /\ Head(config.local_name_ident) = "[hash]")
    => (ident.val # <<>> /\ ~StartsWithDigit(ident.val))

\* a digest that starts with a digit, rendered under the template [hash]
C4_Witness ==
  /\ namePc = "done"
  /\ config.local_name_ident = <<"[hash]">>
  /\ StartsWithDigit(RenderedHash(filename, local, config))
  /\ ident.kind = "ok"
  /\ Head(ident.val) = "_"

\* C5 (as claimed): with the same context, another path with the same local
\* name gives another identifier, and another local name with the same path
\* gives another identifier.
C5_InputsSeparateIdentifiers ==
  (namePc = "done" /\ ident.kind = "ok") =>
    /\ \A p \in Paths \ {filename} : new_name_for(p, local, config) # ident
    /\ \A l \in Locals \ {local} : new_name_for(filename, l, config) # ident

Mentions(template, token) == \E i \in 1..Len(template) : template[i] = token

\* C5 (amended): with the same context, when the template does not itself
\* render the changed input, the two identifiers differ exactly when the
\* template contains the hash placeholder and the two rendered digests differ:
\* for another path under a template without [path], and for another local
\* name under a template without [local].
C5_HashSeparatesIdentifiers ==
  (namePc = "done" /\ ident.kind = "ok") =>
    /\ ~Mentions(config.local_name_ident, "[path]") =>
         \A p \in Paths \ {filename} :
           (new_name_for(p, local, config) # ident)
             <=> (/\ Mentions(config.local_name_ident, "[hash]")
                  /\ RenderedHash(p, local, config) # RenderedHash(filename, local, config))
    /\ ~Mentions(config.local_name_ident, "[local]") =>
         \A l \in Locals \ {local} :
           (new_name_for(filename, l, config) # ident)
             <=> (/\ Mentions(config.local_name_ident, "[hash]")
                  /\ RenderedHash(filename, l, config) # RenderedHash(filename, local, config))

\* under the template [hash]: a path and a local name with another digest, and
\* a path with the same digest
C5_Witness ==
  /\ namePc = "done"
  /\ config.local_name_ident = <<"[hash]">>
  /\ ident.kind = "ok"
  /\ \E p \in Paths \ {filename} : new_name_for(p, local, config) # ident
  /\ \E p \in Paths \ {filename} : new_name_for(p, local, config) = ident
  /\ \E l \in Locals \ {local} : new_name_for(filename, l, config) # ident

====
